---- MODULE Spec2Model ----
(***************************************************************************)
(* The checkpoint log of root_digger (src/src/checkpoint.cpp): several     *)
(* processes (MPI ranks) share one checkpoint file <prefix>.ckp, append    *)
(* result records to it under an fcntl write lock, scan it back, and rank  *)
(* 0 compacts it through <prefix>.ckp.bak and a rename.                    *)
(*                                                                         *)
(* The disk is a list of files (index = inode number) and two directory    *)
(* entries.  A file is a sequence of cells, one cell per write the codec   *)
(* issues: a header is its length and two groups of fields written by      *)
(* write<cli_options_t>, a body record is its length, checksum and payload.*)
(***************************************************************************)
EXTENDS Integers, Sequences, FiniteSets, TLC

\* ---------------------------------------------------------------- bounds
Procs == {0, 1}             \* the ranks; __MPI_RANK__ of process p is p
MaxOps == 3                 \* calls made on the logs, over all processes
MaxInitRecs == 2            \* records of the file left by an earlier run
MaxFaults == 1              \* failed writes and crashes injected
Cfgs == {1, 2}              \* configuration snapshots a caller can pass

\* ------------------------------------------------------------ file format
\* write<cli_options_t> under write_with_success: the frame, then the fields
\* in their fixed order.  The writes of the fields are kept in two groups:
\* those of lines 52-59 (file names, data type, model) and those of lines
\* 60-75 (rates, seed, tolerances, flags).
HeaderCells(c) == << <<"hlen", c, 0>>, <<"htxt", c, 0>>, <<"hnum", c, 0>> >>

HeaderLen == Len(HeaderCells(1))

\* write_with_checksum on a rd_result_t: length, checksum, payload.
RecordCells(r) == << <<"rlen", r, 0>>, <<"rsum", r, 0>>, <<"rpay", r, 0>> >>

expected_read_size == 3

\* The cells of a sequence of records, in order (clean's copy loop).
RECURSIVE AllRecordCells(_)
AllRecordCells(rs) ==
  IF rs = <<>> THEN <<>> ELSE RecordCells(Head(rs)) \o AllRecordCells(Tail(rs))

Min(a, b) == IF a < b THEN a ELSE b

\* read_with_success on a cli_options_t at position pos of file f: the
\* configuration when a whole header stands there, 0 (a read failure) else.
read_with_success(f, pos) ==
  IF pos + HeaderLen <= Len(f)
     /\ \E c \in Cfgs : SubSeq(f, pos + 1, pos + HeaderLen) = HeaderCells(c)
  THEN f[pos + 1][2]
  ELSE 0

\* read_with_checksum on a rd_result_t at position pos of file f:
\*   <<"zero", 0>>    nothing left to read (clean end of file)
\*   <<"full", id>>   a whole record whose checksum matches
\*   <<"corrupt", 0>> a short or damaged record (checkpoint_read_success_failure)
read_with_checksum(f, pos) ==
  IF pos >= Len(f) THEN <<"zero", 0>>
  ELSE IF pos + expected_read_size <= Len(f)
          /\ f[pos + 1][1] = "rlen"
          /\ SubSeq(f, pos + 1, pos + expected_read_size) = RecordCells(f[pos + 1][2])
       THEN <<"full", f[pos + 1][2]>>
       ELSE <<"corrupt", 0>>

\* ------------------------------------------------------------------ state
VARIABLES
  files,             \* the disk: files[i] is the content of inode i
  ckp,               \* inode at _checkpoint_filename, 0 when there is none
  bak,               \* inode at _checkpoint_filename + ".bak", 0 when none
  lockOf,            \* lockOf[p]: inode on which p holds the fcntl write lock
  pc,                \* where each process stands
  file_descriptor,   \* _file_descriptor: inode the open file refers to
  offset,            \* file offset of that open file (shared with its dups)
  existing_results,  \* _existing_results
  frame,             \* the running (or last) call of each process, see Idle
  ops,               \* calls made so far
  faults,            \* faults injected so far
  used,              \* root ids handed to write so far
  acked,             \* root ids whose write returned normally
  order,             \* <<inode, root id>> of the writes, in lock order
  atOpen,            \* atOpen[p]: what was true when p opened, see NotOpen
  born,              \* born[i]: records inode i held when it got its name
  saved,             \* saved[i]: first configuration written whole to i
  snapOf,            \* snapOf[i]: the file a compaction of i, or into i, found
  logs,              \* logs[o]: checkpoint_t object o of one process, see NoLog
  closes,            \* closes[d]: times close() was called on descriptor d
  st_ino,            \* st_ino[i]: inode number the file system gave file i
  codec              \* one trial of the string codec on a file of bytes, see NoTrial

disk == <<files, ckp, bak>>
object == <<file_descriptor, offset, existing_results>>
budget == <<ops, faults, used>>
history == <<acked, order, atOpen, born, saved, snapOf>>
aside == <<logs, closes, st_ino, codec>>
vars == <<disk, lockOf, pc, object, frame, budget, history, aside>>

\* No trial of the string codec is under way: nothing was written or read.
NoTrial ==
  [phase |-> "none", kind |-> "none", str |-> <<>>, fd |-> <<>>,
   wrote |-> <<>>, thrown |-> FALSE, total |-> 0, err |-> FALSE, got |-> <<>>]

\* The frame of a call: its name, its locals and how it ended.
Idle ==
  [ op      |-> "none",   \* the member function called
    arg     |-> 0,        \* root_id of the record handed to write
    wq      |-> <<>>,     \* what the call has still to write
    results |-> <<>>,     \* current_progress's results
    options |-> 0,        \* the cli_options_t read by load_options / clean
    copy_fd |-> 0,        \* clean's copy_fd: inode of the backup
    nested  |-> FALSE,    \* current_progress was called by clean (line 137)
    err     |-> "none",   \* failure the call ended with
    seen    |-> <<>>,     \* the file as the call's scan found it
    snap    |-> <<>> ]    \* the file as clean found it when it took the lock

\* What is recorded of the moment a log was opened.
NotOpen ==
  [ absent |-> FALSE,     \* no file stood at the path when access() looked
    header |-> 0,         \* configuration persisted in the file by then
    acked  |-> {} ]       \* writes that had returned when the file was opened

\* Files that one run can come to create or find.
MaxFiles == MaxOps + 2

\* An inode number (ino_t, 64 bits) is kept as its two 32-bit halves.  The
\* file system numbers its files in some way that gives each its own number:
\* here file i gets the number whose halves are the quotient and the
\* remainder of i - 1 by k.
Numbering(k) ==
  [i \in 1..MaxFiles |-> [hi |-> (i - 1) \div k, lo |-> (i - 1) % k]]

\* The checkpoint_t objects whose moves are followed (see the moves below),
\* and an object before it is constructed.
Objs == {1, 2, 3}

NoLog ==
  [ life     |-> "unborn", \* unborn, alive, or dead (destroyed)
    fd       |-> 0,        \* _file_descriptor, 0 when it holds none
    name     |-> "",       \* _checkpoint_filename
    existing |-> FALSE,    \* _existing_results
    got      |-> <<>>,     \* what the source of the last move into it held
    gave     |-> FALSE ]   \* it was the source of a move since it got its handle

\* ------------------------------------------------------------------- lock
\* fcntl(F_SETLKW) grants the write lock when no other process holds one on
\* the file; a process that already holds it is granted it again.
CanLock(p) ==
  \A q \in Procs \ {p} : lockOf[q] # file_descriptor[p]

\* ------------------------------------------------------------------- Init
\* The disk an earlier run left: nothing, or a checkpoint with its header and
\* k whole records; and perhaps the backup of a compaction that was cut short.
InitFile(k) == HeaderCells(1) \o AllRecordCells([i \in 1..k |-> i])

Init ==
  /\ \E fresh \in BOOLEAN, k \in 0..MaxInitRecs, stale \in BOOLEAN :
       LET main == IF fresh THEN <<>> ELSE <<InitFile(k)>>
       IN /\ fresh => (k = 0 /\ ~stale)
          /\ ~fresh => k = MaxInitRecs
          /\ files = IF stale THEN main \o <<HeaderCells(1)>> ELSE main
          /\ ckp = IF fresh THEN 0 ELSE 1
          /\ bak = IF stale THEN Len(main) + 1 ELSE 0
          /\ born = IF stale
                    THEN [i \in 1..Len(main) |-> [j \in 1..k |-> j]] \o << <<>> >>
                    ELSE [i \in 1..Len(main) |-> [j \in 1..k |-> j]]
          /\ saved = IF stale
                     THEN [i \in 1..Len(main) |-> 1] \o <<0>>
                     ELSE [i \in 1..Len(main) |-> 1]
  /\ lockOf = [p \in Procs |-> 0]
  /\ pc = [p \in Procs |-> "closed"]
  /\ file_descriptor = [p \in Procs |-> 0]
  /\ offset = [p \in Procs |-> 0]
  /\ existing_results = [p \in Procs |-> FALSE]
  /\ frame = [p \in Procs |-> Idle]
  /\ ops = 0
  /\ faults = 0
  /\ used = {}
  /\ acked = {}
  /\ order = <<>>
  /\ atOpen = [p \in Procs |-> NotOpen]
  /\ snapOf = [i \in 1..Len(files) |-> <<>>]
  /\ logs = [o \in Objs |-> NoLog]
  /\ closes = <<>>
  /\ st_ino = Numbering(MaxFiles)
  /\ codec = NoTrial

\* ---------------------------------------------------------------- helpers
Set(f, p, v) == [f EXCEPT ![p] = v]

\* A call is made on an open log; the frame of the call before it is gone.
Call(p) ==
  /\ pc[p] = "ready"
  /\ ops < MaxOps
  /\ ops' = ops + 1

\* creat of a new, empty file: the next inode number.
NewInode == Len(files) + 1

\* An exception leaves the call: the scoped lock is released on the way out.
Throw(p, e) ==
  /\ lockOf' = Set(lockOf, p, 0)
  /\ pc' = Set(pc, p, "ready")
  /\ frame' = Set(frame, p, [frame[p] EXCEPT !.err = e, !.wq = <<>>])

\* ------------------------------------------------------------ constructor
\* checkpoint_t::checkpoint_t, line 113: access(F_OK) decides fresh or resume.
ctor_access(p) ==
  /\ pc[p] = "closed"
  /\ existing_results' = Set(existing_results, p, ckp # 0)
  /\ atOpen' = Set(atOpen, p, [NotOpen EXCEPT !.absent = (ckp = 0),
                                 !.header = IF ckp = 0 THEN 0 ELSE saved[ckp]])
  /\ pc' = Set(pc, p, "opening")
  /\ UNCHANGED <<disk, lockOf, file_descriptor, offset, frame, budget,
                 acked, order, born, saved, snapOf>>
  /\ UNCHANGED aside

\* open(path, O_RDWR | O_APPEND | O_CREAT): the file is created when the path
\* has none; the descriptor's offset starts at 0.
OpenCreate(p) ==
  /\ IF ckp = 0
     THEN /\ files' = Append(files, <<>>)
          /\ ckp' = NewInode
          /\ born' = Append(born, <<>>)
          /\ saved' = Append(saved, 0)
          /\ snapOf' = Append(snapOf, <<>>)
     ELSE UNCHANGED <<files, ckp, born, saved, snapOf>>
  /\ file_descriptor' = Set(file_descriptor, p, ckp')
  /\ offset' = Set(offset, p, 0)
  /\ atOpen' = Set(atOpen, p, [atOpen[p] EXCEPT !.acked = acked])

\* checkpoint_t::checkpoint_t, lines 114-115.
ctor_open(p) ==
  /\ pc[p] = "opening"
  /\ OpenCreate(p)
  /\ pc' = Set(pc, p, "ready")
  /\ UNCHANGED <<bak, lockOf, existing_results, frame, budget, acked, order>>
  /\ UNCHANGED aside

\* checkpoint_t::~checkpoint_t: close(_file_descriptor); the object is gone.
dtor(p) ==
  /\ Call(p)
  /\ file_descriptor' = Set(file_descriptor, p, 0)
  /\ offset' = Set(offset, p, 0)
  /\ existing_results' = Set(existing_results, p, FALSE)
  /\ lockOf' = Set(lockOf, p, 0)
  /\ pc' = Set(pc, p, "closed")
  /\ frame' = Set(frame, p, Idle)
  /\ atOpen' = Set(atOpen, p, NotOpen)
  /\ UNCHANGED <<disk, faults, used, acked, order, born, saved, snapOf>>
  /\ UNCHANGED aside

\* checkpoint_t::reload: close, then open the path again as the constructor
\* does; _existing_results is not looked at again.
reload(p) ==
  /\ Call(p)
  /\ OpenCreate(p)
  /\ lockOf' = Set(lockOf, p, 0)
  /\ frame' = Set(frame, p, [Idle EXCEPT !.op = "reload"])
  /\ UNCHANGED <<bak, pc, existing_results, faults, used, acked, order>>
  /\ UNCHANGED aside

\* ----------------------------------------------------------- save_options
\* Mutant of save_options: the header is written whether or not the file
\* pre-existed.
save_options_always(p, c) ==
  /\ Call(p)
  /\ frame' = Set(frame, p, [Idle EXCEPT !.op = "save_options",
                                         !.wq = HeaderCells(c)])
  /\ pc' = Set(pc, p, "save")
  /\ UNCHANGED <<disk, lockOf, object, faults, used, history>>
  /\ UNCHANGED aside

\* checkpoint_t::save_options, line 154: nothing when the file pre-existed;
\* else the header is written, with no lock taken.
save_options(p, c) ==
  /\ Call(p)
  /\ IF existing_results[p]
     THEN /\ frame' = Set(frame, p, [Idle EXCEPT !.op = "save_options"])
          /\ UNCHANGED pc
     ELSE /\ frame' = Set(frame, p, [Idle EXCEPT !.op = "save_options",
                                                 !.wq = HeaderCells(c)])
          /\ pc' = Set(pc, p, "save")
  /\ UNCHANGED <<disk, lockOf, object, faults, used, history>>
  /\ UNCHANGED aside

\* One write of write<cli_options_t> on _file_descriptor (O_APPEND: the cell
\* goes to the end of the file); the call returns after the last one.
save_options_write(p) ==
  /\ pc[p] = "save"
  /\ LET i == file_descriptor[p]
         f == Append(files[i], Head(frame[p].wq))
         last == Len(frame[p].wq) = 1
     IN /\ files' = Set(files, i, f)
        /\ offset' = Set(offset, p, Len(f))
        /\ saved' = IF last /\ saved[i] = 0 /\ f = HeaderCells(f[1][2])
                    THEN Set(saved, i, f[1][2])
                    ELSE saved
        /\ pc' = Set(pc, p, IF last THEN "ready" ELSE "save")
  /\ frame' = Set(frame, p, [frame[p] EXCEPT !.wq = Tail(@)])
  /\ UNCHANGED <<ckp, bak, lockOf, file_descriptor, existing_results, budget,
                 acked, order, atOpen, born, snapOf>>
  /\ UNCHANGED aside

\* ----------------------------------------------------------- load_options
\* checkpoint_t::load_options: a second descriptor on the path, read from the
\* start; nothing when the file did not pre-exist.
load_options(p) ==
  /\ Call(p)
  /\ LET c == read_with_success(files[ckp], 0)
     IN frame' = Set(frame, p,
          IF existing_results[p]
          THEN [Idle EXCEPT !.op = "load_options", !.options = c,
                            !.err = IF c = 0 THEN "read" ELSE "none"]
          ELSE [Idle EXCEPT !.op = "load_options"])
  /\ UNCHANGED <<disk, lockOf, pc, object, faults, used, history>>
  /\ UNCHANGED aside

\* ------------------------------------------------------------------ write
\* checkpoint_t::write is called with a record of a root id not used before
\* (the ids of the run are handed out in call order).
write_call(p) ==
  /\ Call(p)
  /\ used' = used \cup {MaxInitRecs + Cardinality(used) + 1}
  /\ frame' = Set(frame, p, [Idle EXCEPT !.op = "write",
                                         !.arg = MaxInitRecs + Cardinality(used) + 1])
  /\ pc' = Set(pc, p, "w_lock")
  /\ UNCHANGED <<disk, lockOf, object, faults, history>>
  /\ UNCHANGED aside

\* Mutant of write_acquire: the record is written without waiting for the
\* lock to be free.
write_acquire_unlocked(p) ==
  /\ pc[p] = "w_lock"
  /\ lockOf' = Set(lockOf, p, file_descriptor[p])
  /\ frame' = Set(frame, p, [frame[p] EXCEPT !.wq = RecordCells(frame[p].arg)])
  /\ order' = Append(order, <<file_descriptor[p], frame[p].arg>>)
  /\ pc' = Set(pc, p, "w_write")
  /\ UNCHANGED <<disk, object, budget, acked, atOpen, born, saved, snapOf>>
  /\ UNCHANGED aside

\* line 149: write_lock<block>() returns once the lock is granted.
write_acquire(p) ==
  /\ pc[p] = "w_lock"
  /\ CanLock(p)
  /\ lockOf' = Set(lockOf, p, file_descriptor[p])
  /\ frame' = Set(frame, p, [frame[p] EXCEPT !.wq = RecordCells(frame[p].arg)])
  /\ order' = Append(order, <<file_descriptor[p], frame[p].arg>>)
  /\ pc' = Set(pc, p, "w_write")
  /\ UNCHANGED <<disk, object, budget, acked, atOpen, born, saved, snapOf>>
  /\ UNCHANGED aside

\* line 150: one write of write_with_checksum on _file_descriptor.
write_cell(p) ==
  /\ pc[p] = "w_write"
  /\ frame[p].wq # <<>>
  /\ files' = Set(files, file_descriptor[p],
                  Append(files[file_descriptor[p]], Head(frame[p].wq)))
  /\ offset' = Set(offset, p, Len(files[file_descriptor[p]]) + 1)
  /\ frame' = Set(frame, p, [frame[p] EXCEPT !.wq = Tail(@)])
  /\ UNCHANGED <<ckp, bak, lockOf, pc, file_descriptor, existing_results,
                 budget, history>>
  /\ UNCHANGED aside

\* line 150: a write comes back short; write_with_checksum throws.
write_fail(p) ==
  /\ pc[p] = "w_write"
  /\ frame[p].wq # <<>>
  /\ faults < MaxFaults
  /\ faults' = faults + 1
  /\ Throw(p, "write")
  /\ UNCHANGED <<disk, object, ops, used, history>>
  /\ UNCHANGED aside

\* line 151: the record is written; the scoped lock is released.
write_return(p) ==
  /\ pc[p] = "w_write"
  /\ frame[p].wq = <<>>
  /\ lockOf' = Set(lockOf, p, 0)
  /\ acked' = acked \cup {frame[p].arg}
  /\ pc' = Set(pc, p, "ready")
  /\ UNCHANGED <<disk, object, frame, budget, order, atOpen, born, saved, snapOf>>
  /\ UNCHANGED aside

\* ------------------------------------------------------- current_progress
\* checkpoint_t::current_progress is called by the user of the log.
current_progress_call(p) ==
  /\ Call(p)
  /\ frame' = Set(frame, p, [Idle EXCEPT !.op = "current_progress"])
  /\ pc' = Set(pc, p, "s_lock")
  /\ UNCHANGED <<disk, lockOf, object, faults, used, history>>
  /\ UNCHANGED aside

\* line 170: write_lock<block>() returns once the lock is granted.
current_progress_acquire(p) ==
  /\ pc[p] = "s_lock"
  /\ CanLock(p)
  /\ lockOf' = Set(lockOf, p, file_descriptor[p])
  /\ pc' = Set(pc, p, "s_scan")
  /\ UNCHANGED <<disk, object, frame, budget, history>>
  /\ UNCHANGED aside

\* Mutant of ReadLoop: checkpoint_read_success_failure is not caught and
\* leaves current_progress.
RECURSIVE ReadLoop_uncaught(_, _, _, _)
ReadLoop_uncaught(f, pos, end, rs) ==
  IF pos >= end THEN <<rs, pos, "none">>
  ELSE LET r == read_with_checksum(f, pos)
           next == Min(pos + expected_read_size, Len(f))
       IN CASE r[1] = "full" -> ReadLoop_uncaught(f, next, end, Append(rs, r[2]))
            [] r[1] = "zero" -> <<rs, next, "none">>
            [] OTHER -> <<rs, next, "runtime">>

\* lines 185-204, the loop from position pos: read_with_checksum, then by its
\* result keep the record, stop at the end of the file, or throw;
\* checkpoint_read_success_failure is caught and ends the loop.  The value is
\* <<records read, position reached, failure thrown>>.
RECURSIVE ReadLoop(_, _, _, _)
ReadLoop(f, pos, end, rs) ==
  IF pos >= end THEN <<rs, pos, "none">>
  ELSE LET r == read_with_checksum(f, pos)
           next == Min(pos + expected_read_size, Len(f))
       IN CASE r[1] = "full" -> ReadLoop(f, next, end, Append(rs, r[2]))
            [] r[1] \in {"zero", "corrupt"} -> <<rs, next, "none">>
            [] OTHER -> <<rs, next, "runtime">>

\* lines 171-204: dup the descriptor (the dup shares the offset), seek to the
\* start, read the header, take the end position and run the loop.  The lock
\* keeps the writers of records out meanwhile.  A header that cannot be read,
\* or a throw of the loop, leaves current_progress, and clean when clean
\* called it; the scoped locks are released on the way.
current_progress_scan(p) ==
  /\ pc[p] = "s_scan"
  /\ LET f == files[file_descriptor[p]]
         c == read_with_success(f, 0)
         l == ReadLoop(f, HeaderLen, Len(f), <<>>)
     IN IF c # 0 /\ l[3] = "none"
        THEN /\ offset' = Set(offset, p, l[2])
             /\ frame' = Set(frame, p, [frame[p] EXCEPT !.results = l[1], !.seen = f])
             /\ pc' = Set(pc, p, "s_close")
             /\ UNCHANGED lockOf
        ELSE /\ offset' = Set(offset, p, IF c = 0 THEN Min(HeaderLen, Len(f)) ELSE l[2])
             /\ lockOf' = Set(lockOf, p, 0)
             /\ pc' = Set(pc, p, "ready")
             /\ frame' = Set(frame, p, [frame[p] EXCEPT !.seen = f,
                                          !.err = IF c = 0 THEN "read" ELSE l[3]])
  /\ UNCHANGED <<disk, file_descriptor, existing_results, budget, history>>
  /\ UNCHANGED aside

\* lines 205-207: close(current_fd), which drops the process's fcntl lock on
\* the file, then the scoped lock is released and the results are returned:
\* to the user, or to clean (line 137), which goes on to copy them.
current_progress_return(p) ==
  /\ pc[p] = "s_close"
  /\ lockOf' = Set(lockOf, p, 0)
  /\ IF frame[p].nested
     THEN /\ pc' = Set(pc, p, "c_copy")
          /\ frame' = Set(frame, p, [frame[p] EXCEPT !.wq = frame[p].results])
     ELSE /\ pc' = Set(pc, p, "ready")
          /\ UNCHANGED frame
  /\ UNCHANGED <<disk, object, budget, history>>
  /\ UNCHANGED aside

\* ------------------------------------------------------------------ clean
\* Mutant of clean_call: the rank is not looked at, every rank compacts.
clean_call_any_rank(p) ==
  /\ Call(p)
  /\ frame' = Set(frame, p, [Idle EXCEPT !.op = "clean"])
  /\ pc' = Set(pc, p, IF existing_results[p] THEN "c_lock" ELSE "ready")
  /\ UNCHANGED <<disk, lockOf, object, faults, used, history>>
  /\ UNCHANGED aside

\* checkpoint_t::clean, lines 122-126: returns at once when the file did not
\* pre-exist, and does nothing on a rank other than 0.
clean_call(p) ==
  /\ Call(p)
  /\ frame' = Set(frame, p, [Idle EXCEPT !.op = "clean"])
  /\ pc' = Set(pc, p, IF existing_results[p] /\ p = 0 THEN "c_lock" ELSE "ready")
  /\ UNCHANGED <<disk, lockOf, object, faults, used, history>>
  /\ UNCHANGED aside

\* line 127: write_lock<block>() returns once the lock is granted.
clean_acquire(p) ==
  /\ pc[p] = "c_lock"
  /\ CanLock(p)
  /\ lockOf' = Set(lockOf, p, file_descriptor[p])
  /\ frame' = Set(frame, p, [frame[p] EXCEPT !.snap = files[file_descriptor[p]]])
  /\ pc' = Set(pc, p, "c_open")
  /\ UNCHANGED <<disk, object, budget, history>>
  /\ UNCHANGED aside

\* Mutant of clean_open_backup: the failed open returns with the lock still
\* held (a lock taken by hand and not released on the error path).
clean_open_backup_leak(p) ==
  /\ pc[p] = "c_open"
  /\ IF bak # 0
     THEN /\ pc' = Set(pc, p, "ready")
          /\ frame' = Set(frame, p, [frame[p] EXCEPT !.err = "open"])
          /\ UNCHANGED <<disk, lockOf, born, saved, snapOf>>
     ELSE /\ files' = Append(files, <<>>)
          /\ bak' = NewInode
          /\ frame' = Set(frame, p, [frame[p] EXCEPT !.copy_fd = NewInode])
          /\ born' = Append(born, <<>>)
          /\ saved' = Append(saved, 0)
          /\ snapOf' = Append(snapOf, <<>>)
          /\ pc' = Set(pc, p, "c_read")
          /\ UNCHANGED <<ckp, lockOf>>
  /\ UNCHANGED <<object, budget, acked, order, atOpen>>
  /\ UNCHANGED aside

\* Mutant of clean_open_backup: the backup is opened without O_EXCL, so a
\* backup that is there already is opened and written to.
clean_open_backup_reuse(p) ==
  /\ pc[p] = "c_open"
  /\ IF bak # 0
     THEN /\ frame' = Set(frame, p, [frame[p] EXCEPT !.copy_fd = bak])
          /\ UNCHANGED <<files, bak, born, saved, snapOf>>
     ELSE /\ files' = Append(files, <<>>)
          /\ bak' = NewInode
          /\ frame' = Set(frame, p, [frame[p] EXCEPT !.copy_fd = NewInode])
          /\ born' = Append(born, <<>>)
          /\ saved' = Append(saved, 0)
          /\ snapOf' = Append(snapOf, <<>>)
  /\ pc' = Set(pc, p, "c_read")
  /\ UNCHANGED <<ckp, lockOf, object, budget, acked, order, atOpen>>
  /\ UNCHANGED aside

\* Mutant of clean_open_backup: the new file is put under the checkpoint
\* path at once, before anything is copied into it.
clean_open_backup_in_place(p) ==
  /\ pc[p] = "c_open"
  /\ IF bak # 0
     THEN /\ Throw(p, "open")
          /\ UNCHANGED <<disk, born, saved, snapOf>>
     ELSE /\ files' = Append(files, <<>>)
          /\ ckp' = NewInode
          /\ frame' = Set(frame, p, [frame[p] EXCEPT !.copy_fd = NewInode])
          /\ born' = Append(born, <<>>)
          /\ saved' = Append(saved, 0)
          /\ snapOf' = Append(snapOf, <<>>)
          /\ pc' = Set(pc, p, "c_read")
          /\ UNCHANGED <<bak, lockOf>>
  /\ UNCHANGED <<object, budget, acked, order, atOpen>>
  /\ UNCHANGED aside

\* lines 128-133: open(O_CREAT | O_EXCL) of the backup; when a file is there
\* already the open fails and clean throws.
clean_open_backup(p) ==
  /\ pc[p] = "c_open"
  /\ IF bak # 0
     THEN /\ Throw(p, "open")
          /\ UNCHANGED <<disk, born, saved, snapOf>>
     ELSE /\ files' = Append(files, <<>>)
          /\ bak' = NewInode
          /\ frame' = Set(frame, p, [frame[p] EXCEPT !.copy_fd = NewInode])
          /\ born' = Append(born, <<>>)
          /\ saved' = Append(saved, 0)
          /\ snapOf' = Append(snapOf, <<>>)
          /\ pc' = Set(pc, p, "c_read")
          /\ UNCHANGED <<ckp, lockOf>>
  /\ UNCHANGED <<object, budget, acked, order, atOpen>>
  /\ UNCHANGED aside

\* lines 134-135: read_with_success(_file_descriptor, options) reads where the
\* descriptor's offset stands; a failed read throws.
clean_read_header(p) ==
  /\ pc[p] = "c_read"
  /\ LET f == files[file_descriptor[p]]
         c == read_with_success(f, offset[p])
     IN IF c # 0
        THEN /\ frame' = Set(frame, p, [frame[p] EXCEPT !.options = c])
             /\ offset' = Set(offset, p, offset[p] + HeaderLen)
             /\ pc' = Set(pc, p, "c_header")
             /\ UNCHANGED lockOf
        ELSE /\ offset' = Set(offset, p, Min(offset[p] + HeaderLen, Len(f)))
             /\ Throw(p, "read")
  /\ UNCHANGED <<disk, file_descriptor, existing_results, budget, history>>
  /\ UNCHANGED aside

\* Mutant of clean_write_header: the lock is not granted again to the process
\* that holds it.
clean_write_header_no_regrant(p) ==
  /\ pc[p] = "c_header"
  /\ \A q \in Procs : lockOf[q] # file_descriptor[p]
  /\ files' = Set(files, frame[p].copy_fd,
                  files[frame[p].copy_fd] \o HeaderCells(frame[p].options))
  /\ lockOf' = Set(lockOf, p, file_descriptor[p])
  /\ frame' = Set(frame, p, [frame[p] EXCEPT !.nested = TRUE])
  /\ pc' = Set(pc, p, "s_scan")
  /\ UNCHANGED <<ckp, bak, object, budget, history>>
  /\ UNCHANGED aside

\* line 136: write_with_success(copy_fd, options), then line 137: clean calls
\* current_progress, which takes the lock (line 170) that this process holds
\* already.  No other process has the backup open, so the writes of one call
\* on copy_fd are taken together.
clean_write_header(p) ==
  /\ pc[p] = "c_header"
  /\ CanLock(p)
  /\ files' = Set(files, frame[p].copy_fd,
                  files[frame[p].copy_fd] \o HeaderCells(frame[p].options))
  /\ lockOf' = Set(lockOf, p, file_descriptor[p])
  /\ frame' = Set(frame, p, [frame[p] EXCEPT !.nested = TRUE])
  /\ pc' = Set(pc, p, "s_scan")
  /\ UNCHANGED <<ckp, bak, object, budget, history>>
  /\ UNCHANGED aside

\* Mutant of clean_write_result: the turn of the loop goes by without the
\* record being written.
clean_write_result_skip(p) ==
  /\ pc[p] = "c_copy"
  /\ frame[p].wq # <<>>
  /\ frame' = Set(frame, p, [frame[p] EXCEPT !.wq = Tail(@)])
  /\ UNCHANGED <<disk, lockOf, pc, object, budget, history>>
  /\ UNCHANGED aside

\* lines 138-140, one turn: write_with_checksum(copy_fd, result).
clean_write_result(p) ==
  /\ pc[p] = "c_copy"
  /\ frame[p].wq # <<>>
  /\ files' = Set(files, frame[p].copy_fd,
                  files[frame[p].copy_fd] \o RecordCells(Head(frame[p].wq)))
  /\ frame' = Set(frame, p, [frame[p] EXCEPT !.wq = Tail(@)])
  /\ UNCHANGED <<ckp, bak, lockOf, pc, object, budget, history>>
  /\ UNCHANGED aside

\* a write on copy_fd comes back short, after k cells of the header or of the
\* record being written: the codec throws, and clean is left.
clean_write_fail(p, k) ==
  /\ pc[p] = "c_header" \/ (pc[p] = "c_copy" /\ frame[p].wq # <<>>)
  /\ faults < MaxFaults
  /\ faults' = faults + 1
  /\ files' = Set(files, frame[p].copy_fd,
                  files[frame[p].copy_fd]
                    \o SubSeq(IF pc[p] = "c_header"
                              THEN HeaderCells(frame[p].options)
                              ELSE RecordCells(Head(frame[p].wq)), 1, k))
  /\ Throw(p, "write")
  /\ UNCHANGED <<ckp, bak, object, ops, used, history>>
  /\ UNCHANGED aside

\* lines 141-143: close(copy_fd), rename the backup over the checkpoint path,
\* and the scoped lock of line 127 is released.
clean_rename(p) ==
  /\ pc[p] = "c_copy"
  /\ frame[p].wq = <<>>
  /\ ckp' = bak
  /\ bak' = 0
  /\ born' = Set(born, bak, frame[p].results)
  /\ saved' = Set(saved, bak, frame[p].options)
  /\ snapOf' = [snapOf EXCEPT ![bak] = frame[p].snap,
                              ![file_descriptor[p]] = frame[p].snap]
  /\ lockOf' = Set(lockOf, p, 0)
  /\ pc' = Set(pc, p, "ready")
  /\ UNCHANGED <<files, object, frame, budget, acked, order, atOpen>>
  /\ UNCHANGED aside

\* The process is killed while it is inside clean (or inside the scan clean
\* called): its descriptors are closed and its locks dropped by the system.
InClean(p) == pc[p] \in {"c_open", "c_read", "c_header", "c_copy", "s_scan", "s_close"}
              /\ frame[p].op = "clean"

crash(p) ==
  /\ InClean(p)
  /\ faults < MaxFaults
  /\ faults' = faults + 1
  /\ pc' = Set(pc, p, "dead")
  /\ lockOf' = Set(lockOf, p, 0)
  /\ file_descriptor' = Set(file_descriptor, p, 0)
  /\ UNCHANGED <<disk, offset, existing_results, frame, ops, used, history>>
  /\ UNCHANGED aside

\* ------------------------------------------------------------------- Next
Next ==
  \E p \in Procs :
    \/ ctor_access(p)
    \/ ctor_open(p)
    \/ dtor(p)
    \/ reload(p)
    \/ \E c \in Cfgs : save_options(p, c)
    \/ save_options_write(p)
    \/ load_options(p)
    \/ write_call(p)
    \/ write_acquire(p)
    \/ write_cell(p)
    \/ write_fail(p)
    \/ write_return(p)
    \/ current_progress_call(p)
    \/ current_progress_acquire(p)
    \/ current_progress_scan(p)
    \/ current_progress_return(p)
    \/ clean_call(p)
    \/ clean_acquire(p)
    \/ clean_open_backup(p)
    \/ clean_read_header(p)
    \/ clean_write_header(p)
    \/ clean_write_result(p)
    \/ \E k \in 0..1 : clean_write_fail(p, k)
    \/ clean_rename(p)
    \/ crash(p)

Spec == Init /\ [][Next]_vars

\* ----------------------------------------------------- reading the claims
\* The root ids of the writes that took the lock on inode i, in lock order.
IdsOn(i) ==
  LET On(e) == e[1] = i
      s == SelectSeq(order, On)
  IN [j \in 1..Len(s) |-> s[j][2]]

IsHeaderCell(c) == c[1] \in {"hlen", "htxt", "hnum"}

\* File f starts with one whole header and holds no other header cell.
OneHeader(f) ==
  /\ Len(f) >= HeaderLen
  /\ \E c \in Cfgs : SubSeq(f, 1, HeaderLen) = HeaderCells(c)
  /\ \A j \in (HeaderLen + 1)..Len(f) : ~IsHeaderCell(f[j])

\* The root ids at the payload places of the n records that follow the header.
PayloadIds(f, n) == [j \in 1..n |-> f[HeaderLen + expected_read_size * j][2]]

\* File f is one header followed by whole records and nothing else.
Whole(f) ==
  /\ Len(f) >= HeaderLen
  /\ (Len(f) - HeaderLen) % expected_read_size = 0
  /\ \E c \in Cfgs :
       f = HeaderCells(c)
             \o AllRecordCells(PayloadIds(f, (Len(f) - HeaderLen) \div expected_read_size))

RecordsOf(f) == PayloadIds(f, (Len(f) - HeaderLen) \div expected_read_size)

IsPrefix(s, t) == Len(s) <= Len(t) /\ SubSeq(t, 1, Len(s)) = s

Range(s) == {s[j] : j \in 1..Len(s)}

\* A process is inside the critical section of write or of current_progress.
InCritical(p) == pc[p] \in {"w_write", "s_scan", "s_close"}

\* The coordinator is inside clean, between taking the lock and the rename.
CleanLocked(p) ==
  frame[p].op = "clean" /\ pc[p] \in {"c_open", "c_read", "c_header", "s_scan", "s_close", "c_copy"}

\* C1: writes by several processes on one checkpoint file are serialised by
\* the lock: a scan that ends on a file with its one header, when no write
\* failed, returns the records the file started with and then every record
\* written to it, each once and whole, in the order the writes took the lock.
C1_Thm ==
  \A p \in Procs :
    (pc[p] = "s_close" /\ faults = 0 /\ OneHeader(frame[p].seen))
      => frame[p].results = born[file_descriptor[p]] \o IdsOn(file_descriptor[p])

\* Two processes wrote, the later caller took the lock first, and a scan
\* returned the old records and then both new ones in lock order.
C1_Witness ==
  \E p \in Procs :
    /\ pc[p] = "s_close"
    /\ faults = 0
    /\ born[file_descriptor[p]] # <<>>
    /\ frame[p].results =
         born[file_descriptor[p]] \o <<MaxInitRecs + 2, MaxInitRecs + 1>>

\* C2: while the coordinator is inside clean, from its taking the lock to the
\* rename, no other process is inside the critical section of write or of
\* current_progress on the same file.
C2_Claim ==
  \A p \in Procs, q \in Procs :
    (p # q /\ CleanLocked(p) /\ InCritical(q))
      => file_descriptor[q] # file_descriptor[p]

\* C3: with no failed write and no crash, a scan made through a log opened
\* after a write returned gives back the record of that write (on a file that
\* has its one header).
C3_Claim ==
  \A p \in Procs :
    (pc[p] = "s_close" /\ faults = 0 /\ OneHeader(frame[p].seen))
      => atOpen[p].acked \subseteq Range(frame[p].results)

\* A step of process p.
Steps(p) == pc'[p] # pc[p] \/ frame'[p] # frame[p]

\* C4: compaction is crash-safe.  While the coordinator is inside clean, or
\* dead inside it, the checkpoint path never names the backup it writes; no
\* step of clean, a crash included, changes the content of the file at the
\* checkpoint path; and the only step that changes what the path names is
\* the rename, which puts there one header followed by whole records.
C4_Thm ==
  /\ [](\A p \in Procs :
          (InClean(p) \/ pc[p] = "dead") => ckp # frame[p].copy_fd)
  /\ [][\A p \in Procs :
          (InClean(p) /\ Steps(p))
            => /\ files'[ckp] = files[ckp]
               /\ ckp' # ckp => (pc[p] = "c_copy" /\ Whole(files'[ckp']))]_vars

\* The coordinator died inside clean with the backup half written: the
\* backup is there, shorter than the original, and the checkpoint path still
\* names the original as clean found it.
C4_Witness ==
  \E p \in Procs :
    /\ pc[p] = "dead"
    /\ bak # 0 /\ bak = frame[p].copy_fd
    /\ files[bak] # <<>>
    /\ Len(files[bak]) < Len(frame[p].snap)
    /\ files[ckp] = frame[p].snap

\* C5: compaction keeps the valid records.  When clean took the lock on a
\* file that was one header and whole records, the rename leaves under the
\* checkpoint path the header clean read followed by exactly those records,
\* whole and in the same order; and a later scan of the compacted file, or
\* of the file it was made from, returns those records first, and nothing
\* else when the file has not grown.
C5_Thm ==
  /\ [][\A p \in Procs :
          (pc[p] = "c_copy" /\ pc'[p] = "ready" /\ frame'[p].err = "none"
             /\ Whole(frame[p].snap))
            => files'[ckp'] = HeaderCells(frame[p].options)
                                \o AllRecordCells(RecordsOf(frame[p].snap))]_vars
  /\ [](\A q \in Procs :
          LET i == file_descriptor[q] IN
          (pc[q] = "s_close" /\ snapOf[i] # <<>> /\ Whole(snapOf[i]))
            => /\ IsPrefix(RecordsOf(snapOf[i]), frame[q].results)
               /\ Len(files[i]) = Len(snapOf[i])
                    => frame[q].results = RecordsOf(snapOf[i]))

\* A scan of the compacted file, now at the checkpoint path, returned the
\* records of the original.
C5_Witness ==
  \E q \in Procs :
    /\ pc[q] = "s_close"
    /\ file_descriptor[q] = ckp
    /\ snapOf[ckp] # <<>>
    /\ files[ckp] = snapOf[ckp]
    /\ Len(frame[q].results) = MaxInitRecs
    /\ frame[q].results = RecordsOf(snapOf[ckp])

\* File f is a header, n whole records and the first k cells of one more.
Truncated(f) ==
  LET n == (Len(f) - HeaderLen) \div expected_read_size
      k == (Len(f) - HeaderLen) % expected_read_size
  IN /\ Len(f) > HeaderLen
     /\ k > 0
     /\ f[Len(f) - k + 1][1] = "rlen"
     /\ \E c \in Cfgs :
          f = HeaderCells(c) \o AllRecordCells(PayloadIds(f, n))
                \o SubSeq(RecordCells(f[Len(f) - k + 1][2]), 1, k)

\* C6: a scan of a file that is a header, N whole records and a partial
\* record returns the N records, in order, and no failure leaves it.
C6_Thm ==
  \A p \in Procs :
    Truncated(frame[p].seen)
      => /\ frame[p].err \notin {"read", "runtime"}
         /\ frame[p].results =
              PayloadIds(frame[p].seen,
                         (Len(frame[p].seen) - HeaderLen) \div expected_read_size)

\* A scan returned to its caller the whole records of a file that ends with
\* two cells of a record.
C6_Witness ==
  \E p \in Procs :
    /\ Truncated(frame[p].seen)
    /\ (Len(frame[p].seen) - HeaderLen) % expected_read_size = 2
    /\ pc[p] = "ready"
    /\ frame[p].op = "current_progress"
    /\ frame[p].err = "none"
    /\ Len(frame[p].results) = MaxInitRecs

\* C7: when no save_options is under way, a checkpoint file that starts with
\* a whole header holds no other header cell.
C7_Claim ==
  (/\ ckp # 0
   /\ \A p \in Procs : pc[p] # "save"
   /\ Len(files[ckp]) >= HeaderLen
   /\ \E c \in Cfgs : SubSeq(files[ckp], 1, HeaderLen) = HeaderCells(c))
    => OneHeader(files[ckp])

C9_Thm ==
  \A p \in Procs :
    pc[p] \in {"closed", "opening", "ready", "save", "w_lock", "s_lock", "c_lock", "dead"}
      => lockOf[p] = 0

\* clean was left by the failed open of the backup, and the lock is free.
C9_Witness ==
  \E p \in Procs :
    pc[p] = "ready" /\ frame[p].op = "clean" /\ frame[p].err = "open" /\ lockOf[p] = 0

\* C10: when clean comes to open the backup and a file is at the backup path
\* already, clean ends with an open failure, and no file and neither path is
\* changed.
C10_Thm ==
  [][\A p \in Procs :
       (pc[p] = "c_open" /\ bak # 0 /\ Steps(p) /\ pc'[p] # "dead")
         => /\ pc'[p] = "ready"
            /\ frame'[p].err = "open"
            /\ files' = files
            /\ ckp' = ckp
            /\ bak' = bak]_vars

\* clean failed on a backup left by an earlier run, which is there untouched.
C10_Witness ==
  \E p \in Procs :
    /\ pc[p] = "ready" /\ frame[p].op = "clean" /\ frame[p].err = "open"
    /\ bak # 0
    /\ files[bak] = HeaderCells(1)
    /\ files[ckp] = frame[p].snap

\* C11: once a clean that created the backup has finished, normally or with
\* a failure, the file it created is no longer at the backup path.
C11_Claim ==
  \A p \in Procs :
    (pc[p] = "ready" /\ frame[p].op = "clean" /\ frame[p].copy_fd # 0)
      => bak # frame[p].copy_fd

\* ------------------------------------------------- two coordinators (C12)
\* Two processes that both run as rank 0 (two jobs started on one prefix)
\* have opened the checkpoint an earlier run left and have both called
\* clean(): each stands before line 127.
Init12 ==
  /\ files = <<InitFile(MaxInitRecs)>>
  /\ ckp = 1
  /\ bak = 0
  /\ born = <<[j \in 1..MaxInitRecs |-> j]>>
  /\ saved = <<1>>
  /\ snapOf = << <<>> >>
  /\ lockOf = [p \in Procs |-> 0]
  /\ pc = [p \in Procs |-> "c_lock"]
  /\ file_descriptor = [p \in Procs |-> 1]
  /\ offset = [p \in Procs |-> 0]
  /\ existing_results = [p \in Procs |-> TRUE]
  /\ frame = [p \in Procs |-> [Idle EXCEPT !.op = "clean"]]
  /\ ops = 0
  /\ faults = 0
  /\ used = {}
  /\ acked = {}
  /\ order = <<>>
  /\ atOpen = [p \in Procs |-> [NotOpen EXCEPT !.header = 1]]
  /\ logs = [o \in Objs |-> NoLog]
  /\ closes = <<>>
  /\ st_ino = Numbering(MaxFiles)
  /\ codec = NoTrial

\* The two compactions, and what the processes do on their logs afterwards.
Next12 ==
  \E p \in Procs :
    \/ clean_acquire(p)
    \/ clean_open_backup(p)
    \/ clean_read_header(p)
    \/ clean_write_header(p)
    \/ current_progress_scan(p)
    \/ current_progress_return(p)
    \/ clean_write_result(p)
    \/ clean_rename(p)
    \/ reload(p)
    \/ write_call(p)
    \/ write_acquire(p)
    \/ write_cell(p)
    \/ write_return(p)
    \/ current_progress_call(p)
    \/ current_progress_acquire(p)

Spec12 == Init12 /\ [][Next12]_vars

\* C12: when the two coordinators' calls of clean both go through to the
\* rename, the second rename loses nothing: every record whose write had
\* returned and that the file put at the checkpoint path by the first
\* compaction holds is in the file the second one puts there.
C12_Claim ==
  [][\A q \in Procs :
       (/\ pc[q] = "c_copy" /\ pc'[q] = "ready" /\ frame'[q].err = "none"
        /\ ckp' # ckp
        /\ snapOf[ckp] # <<>>)
         => \A r \in acked \cup Range(born[ckp]) :
              r \in Range(RecordsOf(files[ckp]))
                => r \in Range(RecordsOf(files'[ckp']))]_vars

\* ------------------------------------------------------ moving a log (C13)
\* One process constructs checkpoint_t objects, moves them and destroys
\* them.  Each object is followed from its construction to its destruction;
\* a descriptor is named by the order in which open() returned it.
MaxFds == 2                 \* logs opened by the constructor
Prefixes == {"a", "b"}      \* prefixes handed to the constructor

\* checkpoint_t::checkpoint_t(prefix), lines 111-119, as seen from the object:
\* the name, the flag found by access() and the descriptor open() returned.
construct(o, x, e) ==
  /\ logs[o].life = "unborn"
  /\ Len(closes) < MaxFds
  /\ logs' = [logs EXCEPT ![o] = [NoLog EXCEPT !.life = "alive",
                                               !.fd = Len(closes) + 1,
                                               !.name = x,
                                               !.existing = e]]
  /\ closes' = Append(closes, 0)
  /\ UNCHANGED <<disk, lockOf, pc, object, frame, budget, history, st_ino, codec>>

\* checkpoint_t(checkpoint_t &&other), lines 233-235: only _file_descriptor is
\* set; the name is default-constructed, _existing_results is left with no
\* value given (u is what it happens to hold), and other is not touched.
move_construct(d, s, u) ==
  /\ d # s
  /\ logs[d].life = "unborn"
  /\ logs[s].life = "alive"
  /\ logs' = [logs EXCEPT
       ![d] = [NoLog EXCEPT !.life = "alive",
                            !.fd = logs[s].fd,
                            !.existing = u,
                            !.got = <<logs[s].fd, logs[s].name, logs[s].existing>>],
       ![s] = [@ EXCEPT !.gave = TRUE]]
  /\ UNCHANGED <<disk, lockOf, pc, object, frame, budget, history, closes, st_ino, codec>>

\* operator=(checkpoint_t &&other), lines 237-240: only _file_descriptor is
\* set; the descriptor the destination held is not closed.
move_assign(d, s) ==
  /\ d # s
  /\ logs[d].life = "alive"
  /\ logs[s].life = "alive"
  /\ logs' = [logs EXCEPT
       ![d] = [@ EXCEPT !.fd = logs[s].fd,
                        !.got = <<logs[s].fd, logs[s].name, logs[s].existing>>,
                        !.gave = FALSE],
       ![s] = [@ EXCEPT !.gave = TRUE]]
  /\ UNCHANGED <<disk, lockOf, pc, object, frame, budget, history, closes, st_ino, codec>>

\* checkpoint_t::~checkpoint_t, line 231: close(_file_descriptor).
destroy(o) ==
  /\ logs[o].life = "alive"
  /\ logs' = [logs EXCEPT ![o] = [@ EXCEPT !.life = "dead"]]
  /\ closes' = IF logs[o].fd = 0
               THEN closes
               ELSE [closes EXCEPT ![logs[o].fd] = @ + 1]
  /\ UNCHANGED <<disk, lockOf, pc, object, frame, budget, history, st_ino, codec>>

InitMove == Init /\ files = <<>>

NextMove ==
  \E d \in Objs :
    \/ \E x \in Prefixes, e \in BOOLEAN : construct(d, x, e)
    \/ \E s \in Objs, u \in BOOLEAN : move_construct(d, s, u)
    \/ \E s \in Objs : move_assign(d, s)
    \/ destroy(d)

SpecMove == InitMove /\ [][NextMove]_vars

\* C13: no descriptor is closed more than once; an object that a log was
\* moved into holds the source's descriptor, path and existing() value; and
\* the source of a move holds no descriptor.
C13_Claim ==
  /\ \A k \in 1..Len(closes) : closes[k] <= 1
  /\ \A o \in Objs :
       (logs[o].life = "alive" /\ logs[o].got # <<>>)
         => <<logs[o].fd, logs[o].name, logs[o].existing>> = logs[o].got
  /\ \A o \in Objs :
       (logs[o].life = "alive" /\ logs[o].gave) => logs[o].fd = 0

\* ------------------------------------------------------ inode, reload (C14)
\* checkpoint_t::get_inode, lines 220-229: fstat on _file_descriptor, and
\* st_ino (ino_t) returned as an int: the low 32 bits of the inode number.
get_inode(p) == st_ino[file_descriptor[p]].lo

\* Two processes have the checkpoint of an earlier run open; the file system
\* numbers its inodes in one of the ways of Numbering.
InitInode ==
  /\ files = <<InitFile(MaxInitRecs)>>
  /\ ckp = 1
  /\ bak = 0
  /\ born = <<[j \in 1..MaxInitRecs |-> j]>>
  /\ saved = <<1>>
  /\ snapOf = << <<>> >>
  /\ lockOf = [p \in Procs |-> 0]
  /\ pc = [p \in Procs |-> "ready"]
  /\ file_descriptor = [p \in Procs |-> 1]
  /\ offset = [p \in Procs |-> 0]
  /\ existing_results = [p \in Procs |-> TRUE]
  /\ frame = [p \in Procs |-> Idle]
  /\ ops = 0
  /\ faults = 0
  /\ used = {}
  /\ acked = {}
  /\ order = <<>>
  /\ atOpen = [p \in Procs |-> [NotOpen EXCEPT !.header = 1]]
  /\ logs = [o \in Objs |-> NoLog]
  /\ closes = <<>>
  /\ \E k \in 1..MaxFiles : st_ino = Numbering(k)
  /\ codec = NoTrial

NextInode ==
  \E p \in Procs :
    \/ clean_call(p)
    \/ clean_acquire(p)
    \/ clean_open_backup(p)
    \/ clean_read_header(p)
    \/ clean_write_header(p)
    \/ current_progress_scan(p)
    \/ current_progress_return(p)
    \/ clean_write_result(p)
    \/ clean_rename(p)
    \/ reload(p)
    \/ write_call(p)
    \/ write_acquire(p)
    \/ write_cell(p)
    \/ write_return(p)
    \/ current_progress_call(p)
    \/ current_progress_acquire(p)

SpecInode == InitInode /\ [][NextInode]_vars

\* A step in which process p reloads its log.
Reloads(p) ==
  /\ frame'[p].op = "reload"
  /\ frame[p].op # "reload" \/ file_descriptor'[p] # file_descriptor[p]

\* C14: a reload leaves the log on the file that is at the checkpoint path;
\* when a compaction by rank 0 has put another file there than the one the
\* log of another process had open, get_inode after the reload of that log
\* differs from get_inode before it; and no step of write or of
\* current_progress changes what get_inode returns.
C14_Claim ==
  [][\A p \in Procs :
       /\ Reloads(p) => file_descriptor'[p] = ckp'
       /\ (Reloads(p) /\ p # 0 /\ file_descriptor[p] # ckp)
            => get_inode(p)' # get_inode(p)
       /\ frame'[p].op \in {"write", "current_progress"}
            => get_inode(p)' = get_inode(p)]_vars

\* ------------------------------------------------------------ C15, C19, C20
\* A step in which process p calls clean.
CleanCalled(p) ==
  /\ ops' = ops + 1
  /\ pc[p] = "ready"
  /\ frame'[p] = [Idle EXCEPT !.op = "clean"]
  /\ \/ frame'[p] # frame[p]
     \/ \A q \in Procs \ {p} : frame'[q] = frame[q] /\ pc'[q] = pc[q]

\* C15: a call of clean on a log whose file did not exist when it was opened,
\* or by a rank other than 0, returns at once: no file is changed, neither
\* path is changed, no lock is taken; and only rank 0, on a log whose file
\* pre-existed, is ever inside clean.
C15_Thm ==
  /\ [](\A p \in Procs : InClean(p) => (existing_results[p] /\ p = 0))
  /\ [][\A p \in Procs :
          (CleanCalled(p) /\ (~existing_results[p] \/ p # 0))
            => /\ files' = files
               /\ ckp' = ckp
               /\ bak' = bak
               /\ lockOf' = lockOf
               /\ pc'[p] = "ready"
               /\ frame'[p].err = "none"]_vars

\* Rank 0 opened a fresh log, a record was appended, and its clean returned
\* with nothing done; so did the clean of the other rank, whose file
\* pre-existed.
C15_Witness ==
  /\ ~existing_results[0] /\ pc[0] = "ready" /\ frame[0].op = "clean"
  /\ existing_results[1] /\ pc[1] = "ready" /\ frame[1].op = "clean"
  /\ acked # {}
  /\ bak = 0
  /\ lockOf = [p \in Procs |-> 0]
  /\ Len(files) = 1

\* ------------------------------------------------------- the typed codec
\* Trials of write<std::string> / read<std::string> and of the header codec
\* built from them, on a file of bytes rather than of cells.  The kernel's
\* answer to every write(2) and the failure of a read(2) are inputs.
MaxLen == 2
Bytes == {0, 1}
Scalars == {0, 1}
SizeofSize == 8
Texts == UNION {[1..n -> Bytes] : n \in 0..MaxLen}
Snapshots == [prefix : Texts, seed : Scalars]

others == <<disk, lockOf, pc, object, frame, budget, history, logs, closes, st_ino>>

\* The object representation of a size_t: SizeofSize bytes, low byte first.
RECURSIVE Digits(_, _)
Digits(n, k) == IF k = 0 THEN <<>> ELSE <<n % 256>> \o Digits(n \div 256, k - 1)

RECURSIVE Number(_)
Number(bs) == IF bs = <<>> THEN 0 ELSE bs[1] + 256 * Number(Tail(bs))

\* std::string(const char *): the characters before the first zero byte.
RECURSIVE CString(_)
CString(buf) ==
  IF buf = <<>> \/ buf[1] = 0 THEN <<>> ELSE <<buf[1]>> \o CString(Tail(buf))

\* write(2) of the bytes bs that answers r: nothing is written when r = -1.
sys_write(f, bs, r) == IF r < 0 THEN f ELSE f \o SubSeq(bs, 1, r)
Answers(n) == -1 .. n

\* The generic write<T> of a fixed-width scalar: a short write throws.
write_scalar(f, v, r) ==
  [fd |-> sys_write(f, Digits(v, SizeofSize), r),
   thrown |-> r < SizeofSize,
   total |-> SizeofSize]

\* The generic read<T> of a fixed-width scalar at pos: a short read throws.
read_scalar(f, pos) ==
  IF Len(f) - pos < SizeofSize
    THEN [val |-> 0, thrown |-> TRUE, total |-> 0]
    ELSE [val |-> Number(SubSeq(f, pos + 1, pos + SizeofSize)),
          thrown |-> FALSE, total |-> SizeofSize]

\* write<std::string>: only the answer to the write of the length is tested;
\* the answer to the write of the characters is added as it is.  The sum is
\* one of size_t: adding static_cast<size_t>(-1) to a count of at least one
\* wraps to that count less one, which is what the integer sum gives.
write_string(f, str, r1, r2) ==
  LET a == sys_write(f, Digits(Len(str), SizeofSize), r1)
  IN IF r1 < SizeofSize
       THEN [fd |-> a, thrown |-> TRUE, total |-> 0]
       ELSE [fd |-> sys_write(a, str, r2), thrown |-> FALSE, total |-> r1 + r2]

\* read<std::string> at pos into a string that holds prior: a length of zero
\* returns at once and leaves the string alone; otherwise read(2) hands over
\* what is left of the file, at most string_size bytes, and only an error
\* throws; the string is built from the zeroed buffer as a C string.
read_string(f, pos, prior, err) ==
  LET n == read_scalar(f, pos)
      left == Len(f) - pos - SizeofSize
      result == Min(n.val, left)
  IN IF n.thrown
       THEN [str |-> prior, thrown |-> TRUE, total |-> 0, size |-> 0, left |-> 0]
     ELSE IF n.val = 0
       THEN [str |-> prior, thrown |-> FALSE, total |-> n.total,
             size |-> 0, left |-> left]
     ELSE IF err
       THEN [str |-> prior, thrown |-> TRUE, total |-> n.total,
             size |-> n.val, left |-> left]
     ELSE [str |-> CString(SubSeq(f, pos + SizeofSize + 1, pos + SizeofSize + result)),
           thrown |-> FALSE, total |-> n.total + result,
           size |-> n.val, left |-> left]

\* write<cli_options_t>: the fields one after the other, a text and a scalar
\* standing for the texts and the scalars of the configuration.
write_options(f, o, r1, r2, r3) ==
  LET a == write_string(f, o.prefix, r1, r2)
      b == write_scalar(a.fd, o.seed, r3)
  IN IF a.thrown THEN a
     ELSE [fd |-> b.fd, thrown |-> b.thrown, total |-> a.total + b.total]

\* read<cli_options_t>: the same fields in the same order.
read_options(f, prior, err) ==
  LET a == read_string(f, 0, prior.prefix, err)
      b == read_scalar(f, a.total)
  IN IF a.thrown
       THEN [val |-> prior, thrown |-> TRUE, total |-> 0]
     ELSE IF b.thrown
       THEN [val |-> [prior EXCEPT !.prefix = a.str], thrown |-> TRUE, total |-> a.total]
     ELSE [val |-> [prefix |-> a.str, seed |-> b.val], thrown |-> FALSE,
           total |-> a.total + b.total]

\* A trial: the value to write, the file, the answers the writes got, how
\* the write ended and the count it returned, whether read(2) failed, and
\* what the read left in its argument, how it ended and the count it returned.
InitCodec ==
  /\ files = <<>>
  /\ ckp = 0
  /\ bak = 0
  /\ born = <<>>
  /\ saved = <<>>
  /\ snapOf = <<>>
  /\ lockOf = [p \in Procs |-> 0]
  /\ pc = [p \in Procs |-> "closed"]
  /\ file_descriptor = [p \in Procs |-> 0]
  /\ offset = [p \in Procs |-> 0]
  /\ existing_results = [p \in Procs |-> FALSE]
  /\ frame = [p \in Procs |-> Idle]
  /\ ops = 0
  /\ faults = 0
  /\ used = {}
  /\ acked = {}
  /\ order = <<>>
  /\ atOpen = [p \in Procs |-> NotOpen]
  /\ logs = [o \in Objs |-> NoLog]
  /\ closes = <<>>
  /\ st_ino = Numbering(MaxFiles)
  /\ \/ \E v \in Texts :
          codec = [NoTrial EXCEPT !.phase = "start", !.kind = "string", !.str = v]
     \/ \E v \in Snapshots :
          codec = [NoTrial EXCEPT !.phase = "start", !.kind = "options", !.str = v]

write_string_call(r1, r2) ==
  /\ codec.phase = "start"
  /\ codec.kind = "string"
  /\ r1 \in Answers(SizeofSize)
  /\ r2 \in Answers(Len(codec.str))
  /\ LET w == write_string(<<>>, codec.str, r1, r2)
     IN codec' = [codec EXCEPT !.phase = "written", !.fd = w.fd,
                               !.wrote = IF w.thrown THEN <<r1>> ELSE <<r1, r2>>,
                               !.thrown = w.thrown, !.total = w.total]
  /\ UNCHANGED others

write_options_call(r1, r2, r3) ==
  /\ codec.phase = "start"
  /\ codec.kind = "options"
  /\ r1 \in Answers(SizeofSize)
  /\ r2 \in Answers(Len(codec.str.prefix))
  /\ r3 \in Answers(SizeofSize)
  /\ LET w == write_options(<<>>, codec.str, r1, r2, r3)
     IN codec' = [codec EXCEPT !.phase = "written", !.fd = w.fd,
                               !.wrote = IF r1 < SizeofSize THEN <<r1>> ELSE <<r1, r2, r3>>,
                               !.thrown = w.thrown, !.total = w.total]
  /\ UNCHANGED others

\* The file loses its tail between the write and the read.
truncate(k) ==
  /\ codec.phase = "written"
  /\ k \in 0 .. Len(codec.fd) - 1
  /\ codec' = [codec EXCEPT !.phase = "cut", !.fd = SubSeq(codec.fd, 1, k)]
  /\ UNCHANGED others

read_string_call(prior, err) ==
  /\ codec.phase \in {"written", "cut"}
  /\ codec.kind = "string"
  /\ prior \in Texts
  /\ LET r == read_string(codec.fd, 0, prior, err)
     IN codec' = [codec EXCEPT
                    !.phase = IF codec.phase = "cut" THEN "read-cut" ELSE "read",
                    !.err = err, !.got = r]
  /\ UNCHANGED others

read_options_call(prior, err) ==
  /\ codec.phase \in {"written", "cut"}
  /\ codec.kind = "options"
  /\ prior \in Snapshots
  /\ LET r == read_options(codec.fd, prior, err)
     IN codec' = [codec EXCEPT
                    !.phase = IF codec.phase = "cut" THEN "read-cut" ELSE "read",
                    !.err = err,
                    !.got = [str |-> r.val, thrown |-> r.thrown, total |-> r.total]]
  /\ UNCHANGED others

NextCodec ==
  \/ \E r1, r2 \in Answers(SizeofSize) : write_string_call(r1, r2)
  \/ \E r1, r2, r3 \in Answers(SizeofSize) : write_options_call(r1, r2, r3)
  \/ \E k \in 0 .. 2 * SizeofSize + MaxLen : truncate(k)
  \/ \E prior \in Texts, err \in BOOLEAN : read_string_call(prior, err)
  \/ \E prior \in Snapshots, err \in BOOLEAN : read_options_call(prior, err)

SpecCodec == InitCodec /\ [][NextCodec]_vars

\* ------------------------------------------------------- C16, C17, C18
\* What each write(2) of the trial was asked to write, in the order issued.
Asked ==
  IF codec.kind = "string"
    THEN <<SizeofSize, Len(codec.str)>>
    ELSE <<SizeofSize, Len(codec.str.prefix), SizeofSize>>

ShortWrite == \E i \in 1..Len(codec.wrote) : codec.wrote[i] < Asked[i]

\* C16: a write of a text or of the configuration in which some write(2)
\* wrote less than asked, or failed, throws; and when it returns, the count
\* it returns is the number of bytes that reached the file.
C16_Claim ==
  codec.phase = "written" =>
    /\ ShortWrite => codec.thrown
    /\ ~codec.thrown => codec.total = Len(codec.fd)

\* C17: what is read back from the bytes of a write that went through is
\* the value written, and the read consumes as many bytes as were written.
C17_Claim ==
  (codec.phase = "read" /\ ~codec.thrown /\ ~ShortWrite /\ ~codec.err) =>
    /\ ~codec.got.thrown
    /\ codec.got.str = codec.str
    /\ codec.got.total = codec.total

\* C18: reading a text whose length prefix announces more bytes than the
\* file still holds throws.
C18_Claim ==
  (/\ codec.kind = "string"
   /\ codec.phase \in {"read", "read-cut"}
   /\ codec.got.size > codec.got.left) => codec.got.thrown

\* ------------------------------------------------------------------ C19
\* C19: when the file the log has open starts with a whole header, the step
\* of clean that reads the header (line 135) succeeds and reads that header,
\* wherever earlier calls on the log left the file offset.
C19_Claim ==
  [][\A p \in Procs :
       (/\ pc[p] = "c_read"
        /\ pc'[p] \notin {"c_read", "dead"}
        /\ read_with_success(files[file_descriptor[p]], 0) # 0)
         => /\ frame'[p].err = "none"
            /\ frame'[p].options = read_with_success(files[file_descriptor[p]], 0)]_vars

\* ------------------------------------------------------------------ C20
\* Two ranks on a resumed checkpoint that write, scan, compact and reload,
\* with the faults of Spec; a process that can take a step of the call it is
\* in takes it in the end, so no process stays in its critical section.
InitFair == InitInode /\ st_ino = Numbering(MaxFiles)

NextFair ==
  \/ NextInode
  \/ \E p \in Procs :
       \/ write_fail(p)
       \/ \E k \in 0..1 : clean_write_fail(p, k)
       \/ crash(p)

Step(p) ==
  \/ write_acquire(p)
  \/ write_cell(p)
  \/ write_return(p)
  \/ current_progress_acquire(p)
  \/ current_progress_scan(p)
  \/ current_progress_return(p)
  \/ clean_acquire(p)
  \/ clean_open_backup(p)
  \/ clean_read_header(p)
  \/ clean_write_header(p)
  \/ clean_write_result(p)
  \/ clean_rename(p)

SpecFair == InitFair /\ [][NextFair]_vars /\ \A p \in Procs : WF_vars(Step(p))

Running(p) ==
  /\ frame[p].op \in {"write", "current_progress", "clean"}
  /\ pc[p] \notin {"ready", "dead"}

\* C20: every write, current_progress and clean that was called returns or
\* throws (unless the process is killed); and when clean, holding the lock,
\* comes to the scan that asks for the lock again, the lock is granted.
C20_Thm ==
  /\ \A p \in Procs : Running(p) ~> (pc[p] \in {"ready", "dead"})
  /\ [](\A p \in Procs :
          (pc[p] = "c_header" /\ lockOf[p] = file_descriptor[p]) => CanLock(p))

C20_Witness ==
  /\ pc[0] = "s_scan"
  /\ frame[0].nested
  /\ lockOf[0] = file_descriptor[0]
  /\ pc[1] \in {"w_lock", "s_lock"}
  /\ file_descriptor[1] = file_descriptor[0]

====
